---- MODULE Spec2Model ----
(***************************************************************************)
(* Model of lava/magma/core/decorator.py: the three class decorators       *)
(* implements, requires and tags, and the class attributes they read       *)
(* (through the method resolution order) and write (onto the decorated     *)
(* class itself).                                                          *)
(***************************************************************************)
EXTENDS Integers, Sequences, FiniteSets, TLC

\* cls_dict: each class' own __dict__, restricted to the four attributes
\*           the decorators read and write.
\* binder:   the closure returned by the latest successful call of
\*           implements, requires or tags (proc/protocol, reqs, tag_list).
\* last:     the latest call: its arguments or target, and whether it
\*           returned ("ok") or which AssertionError it raised; repeat
\*           tells that the call before it was the same successful
\*           application.
\* late:     history, per list attribute: some class had the list it shows
\*           changed while a subclass already held its own list.
\* ncalls:   number of calls made so far.
VARIABLES cls_dict, binder, last, late, ncalls

vars == <<cls_dict, binder, last, late, ncalls>>

\* Number of decorator calls (constructions and applications) explored.
MaxCalls == 5

----------------------------------------------------------------------------
\* The class hierarchy the decorators are applied to.

None == "None"

Classes == {"AbstractProcessModel", "M", "N", "Other"}

\* class M(AbstractProcessModel), class N(M), class Other(object)
Base == [c \in Classes |->
           CASE c = "M" -> "AbstractProcessModel"
             [] c = "N" -> "M"
             [] OTHER -> "object"]

Attrs == {"implements_process", "implements_protocol",
          "required_resources", "tag_list"}

ListAttrs == {"required_resources", "tag_list"}

\* An attribute a class' own __dict__ does not hold.
NoAttr(attr) == [has |-> FALSE,
                 val |-> IF attr \in ListAttrs THEN <<>> ELSE None]

HasAttrVal(v) == [has |-> TRUE, val |-> v]

\* issubclass(cls, base) along the single-inheritance chain.
RECURSIVE issubclass(_, _)
issubclass(cls, base) ==
    IF cls = base THEN TRUE
    ELSE IF cls = "object" THEN FALSE
    ELSE issubclass(Base[cls], base)

\* Strict subclasses of cls.
Subclasses(cls) == {s \in Classes : s # cls /\ issubclass(s, cls)}

\* Attribute lookup cls.attr: the first class of the MRO whose own
\* __dict__ holds attr.
RECURSIVE Lookup(_, _, _)
Lookup(d, cls, attr) ==
    IF cls = "object" THEN NoAttr(attr)
    ELSE IF d[cls][attr].has THEN d[cls][attr]
    ELSE Lookup(d, Base[cls], attr)

getattr(d, cls, attr) == Lookup(d, cls, attr).val

hasattr(d, cls, attr) == Lookup(d, cls, attr).has

\* setattr(cls, attr, val) on another class than the decorated one: the
\* class of the MRO that holds attr (an in-place update of the inherited
\* object).
setattr_on_owner(d, cls, attr, val) ==
    LET RECURSIVE Owner(_)
        Owner(c) == IF c = "object" THEN cls
                    ELSE IF d[c][attr].has THEN c
                    ELSE Owner(Base[c])
    IN  [d EXCEPT ![Owner(cls)][attr] = HasAttrVal(val)]

\* setattr(cls, attr, val): writes cls' own __dict__.
setattr(d, cls, attr, val) == [d EXCEPT ![cls][attr] = HasAttrVal(val)]

----------------------------------------------------------------------------
\* Argument values.

ProcessClasses == {"ProcA", "ProcB"}
ProtocolClasses == {"ProtoA", "ProtoB"}
ResourceClasses == {"CPU", "GPU"}

\* (proc, protocol) pairs: every combination of absent and valid
\* arguments, and one invalid argument on either side.
ImplementsArgs ==
    (({None} \cup ProcessClasses) \X ({None} \cup ProtocolClasses))
    \cup {<<"NotAProcess", None>>, <<"ProcA", "NotAProtocol">>}

\* A Python value passed in *args: a class, a str, an int or a list.
Cls(c) == [kind |-> "cls", val |-> c, elems |-> <<>>]
Str(s) == [kind |-> "str", val |-> s, elems |-> <<>>]
Num == [kind |-> "int", val |-> "5", elems |-> <<>>]
Lst(es) == [kind |-> "list", val |-> "", elems |-> es]

ReqArgLists ==
    { <<>>,
      <<Cls("CPU")>>,
      <<Cls("CPU"), Lst(<<Cls("CPU"), Cls("GPU")>>)>>,
      <<Lst(<<>>)>>,
      <<Cls("NotAResource")>>,
      <<Cls("CPU"), Lst(<<Cls("GPU"), Cls("NotAResource")>>)>> }

TagArgLists ==
    { <<Str("cpu")>>,
      <<Str("cpu"), Lst(<<Str("fast"), Str("precise")>>)>>,
      <<Lst(<<Str("gpu")>>), Str("cpu")>>,
      <<Lst(<<>>)>>,
      <<Str("cpu"), Lst(<<Lst(<<Str("fast")>>)>>)>>,
      <<Lst(<<Str("fast"), Lst(<<>>)>>)>>,
      <<Num>> }

NoBinder == [kind |-> "none", proc |-> None, protocol |-> None,
             reqs |-> <<>>, tag_list |-> <<>>]

NoCall == [op |-> "none", target |-> "object", result |-> "ok",
           proc |-> None, protocol |-> None, items |-> <<>>,
           repeat |-> FALSE]

Max(S) == CHOOSE m \in S : \A x \in S : x <= m

----------------------------------------------------------------------------
\* implements(proc, protocol)

\* Lines 26-31: an argument that is given must be a subclass of
\* AbstractProcess, respectively AbstractSyncProtocol.
implements_args_ok(proc, protocol) ==
    /\ proc # None => proc \in ProcessClasses
    /\ protocol # None => protocol \in ProtocolClasses

\* Variants of the overwrite check of line 40.
process_conflict_own_only(d, cls, proc) ==
    /\ d[cls]["implements_process"].has
    /\ d[cls]["implements_process"].val # None
    /\ proc # None
    /\ d[cls]["implements_process"].val # proc

process_conflict_never(d, cls, proc) == FALSE

process_conflict_when_set(d, cls, proc) ==
    /\ getattr(d, cls, "implements_process") # None
    /\ proc # None

\* Line 40: cls.implements_process and proc and
\*          cls.implements_process != proc
process_conflict(d, cls, proc) ==
    /\ getattr(d, cls, "implements_process") # None
    /\ proc # None
    /\ getattr(d, cls, "implements_process") # proc

\* Lines 52-53: the same check for implements_protocol.
protocol_conflict(d, cls, protocol) ==
    /\ getattr(d, cls, "implements_protocol") # None
    /\ protocol # None
    /\ getattr(d, cls, "implements_protocol") # protocol

\* issubclass(cls, AbstractProcessModel) without the check.
is_process_model_unchecked(cls) == TRUE

\* Lines 34, 93, 153: issubclass(cls, AbstractProcessModel)
is_process_model(cls) == issubclass(cls, "AbstractProcessModel")

\* Lines 33-63, in statement order: the outcome and the class attributes
\* the call leaves behind.
implements_outcome(d, cls, proc, protocol) ==
    IF ~is_process_model(cls)
    THEN [result |-> "InvalidTarget", dict |-> d]
    ELSE IF process_conflict(d, cls, proc)
    THEN [result |-> "ConflictError", dict |-> d]
    ELSE LET d1 == IF proc # None
                   THEN setattr(d, cls, "implements_process", proc)
                   ELSE d
         IN  IF protocol_conflict(d1, cls, protocol)
             THEN [result |-> "ConflictError", dict |-> d1]
             ELSE [result |-> "ok",
                   dict |-> IF protocol # None
                            THEN setattr(d1, cls, "implements_protocol",
                                         protocol)
                            ELSE d1]

implements(proc, protocol) ==
    /\ ncalls < MaxCalls
    /\ ncalls' = ncalls + 1
    /\ binder' = IF implements_args_ok(proc, protocol)
                 THEN [NoBinder EXCEPT !.kind = "implements",
                                       !.proc = proc,
                                       !.protocol = protocol]
                 ELSE binder
    /\ last' = [NoCall EXCEPT !.op = "implements",
                              !.proc = proc, !.protocol = protocol,
                              !.result = IF implements_args_ok(proc, protocol)
                                         THEN "ok" ELSE "InvalidArgument"]
    /\ UNCHANGED <<cls_dict, late>>

implements_decorate_process_model(cls) ==
    /\ ncalls < MaxCalls
    /\ binder.kind = "implements"
    /\ ncalls' = ncalls + 1
    /\ LET out == implements_outcome(cls_dict, cls, binder.proc,
                                     binder.protocol)
       IN  /\ cls_dict' = out.dict
           /\ last' = [NoCall EXCEPT
                         !.op = "implements_decorate_process_model",
                         !.target = cls,
                         !.result = out.result,
                         !.repeat =
                            /\ last.op = "implements_decorate_process_model"
                            /\ last.target = cls
                            /\ last.result = "ok"]
    /\ UNCHANGED <<binder, late>>

----------------------------------------------------------------------------
\* requires(*args)

\* issubclass(r, AbstractResource)
is_resource(r) == r.kind = "cls" /\ r.val \in ResourceClasses

\* Lines 82-90: every item is a list or a resource class, and every
\* element of a list item is a resource class.
requires_args_ok(reqs) ==
    \A i \in DOMAIN reqs :
        /\ ~(reqs[i].kind # "list" /\ ~is_resource(reqs[i]))
        /\ reqs[i].kind = "list" =>
              \A j \in DOMAIN reqs[i].elems : is_resource(reqs[i].elems[j])

\* Variants of the concatenation of lines 101 and 160.
extended_prepend(inherited, new) == new \o inherited

extended_drop_inherited(inherited, new) == new

\* Lines 101 and 160: super_res + reqs, supertags + tag_list.
extended(inherited, new) == inherited \o new

\* History: the call changes the list that cls shows while a strict
\* subclass of cls already holds its own list.
extends_under_subclass(d, cls, attr, new) ==
    /\ new # getattr(d, cls, attr)
    /\ \E s \in Subclasses(cls) : d[s][attr].has

\* Lines 92-102.
requires_outcome(d, cls, reqs) ==
    IF ~is_process_model(cls)
    THEN [result |-> "InvalidTarget", dict |-> d]
    ELSE LET super_res == getattr(d, cls, "required_resources")
         IN  [result |-> "ok",
              dict |-> setattr(d, cls, "required_resources",
                               extended(super_res, reqs))]

requires(args) ==
    /\ ncalls < MaxCalls
    /\ ncalls' = ncalls + 1
    /\ binder' = IF requires_args_ok(args)
                 THEN [NoBinder EXCEPT !.kind = "requires", !.reqs = args]
                 ELSE binder
    /\ last' = [NoCall EXCEPT !.op = "requires", !.items = args,
                              !.result = IF requires_args_ok(args)
                                         THEN "ok" ELSE "InvalidArgument"]
    /\ UNCHANGED <<cls_dict, late>>

requires_decorate_process_model(cls) ==
    /\ ncalls < MaxCalls
    /\ binder.kind = "requires"
    /\ ncalls' = ncalls + 1
    /\ LET out == requires_outcome(cls_dict, cls, binder.reqs)
       IN  /\ cls_dict' = out.dict
           /\ last' = [NoCall EXCEPT
                         !.op = "requires_decorate_process_model",
                         !.target = cls,
                         !.result = out.result,
                         !.repeat =
                            /\ last.op = "requires_decorate_process_model"
                            /\ last.target = cls
                            /\ last.result = "ok"]
           /\ late' = [late EXCEPT !.required_resources =
                         @ \/ /\ out.result = "ok"
                              /\ extends_under_subclass(
                                    cls_dict, cls, "required_resources",
                                    getattr(out.dict, cls,
                                            "required_resources"))]
    /\ UNCHANGED binder

----------------------------------------------------------------------------
\* tags(*args)

\* Lines 137-139: 1 + max(map(list_depth, elem), default=0)
\*                if elem and isinstance(elem, list) else 0
RECURSIVE list_depth(_)
list_depth(elem) ==
    IF elem.kind = "list" /\ elem.elems # <<>>
    THEN 1 + Max({0} \cup {list_depth(elem.elems[i]) :
                              i \in DOMAIN elem.elems})
    ELSE 0

\* Lines 141-150: the loop over arg_list, from the tag_list built so far.
RECURSIVE tags_loop(_, _)
tags_loop(arg_list, tag_list) ==
    IF arg_list = <<>>
    THEN [ok |-> TRUE, tag_list |-> tag_list]
    ELSE LET arg == Head(arg_list)
         IN  IF arg.kind = "str"
             THEN tags_loop(Tail(arg_list), Append(tag_list, arg))
             ELSE IF arg.kind = "list" /\ list_depth(arg) = 1
             THEN tags_loop(Tail(arg_list), tag_list \o arg.elems)
             ELSE [ok |-> FALSE, tag_list |-> <<>>]

\* Lines 152-163.
tags_outcome(d, cls, tag_list) ==
    IF ~is_process_model(cls)
    THEN [result |-> "InvalidTarget", dict |-> d]
    ELSE IF hasattr(d, cls, "tag_list")
    THEN LET supertags == getattr(d, cls, "tag_list")
         IN  [result |-> "ok",
              dict |-> setattr(d, cls, "tag_list",
                               extended(supertags, tag_list))]
    ELSE [result |-> "ok", dict |-> setattr(d, cls, "tag_list", tag_list)]

tags(args) ==
    /\ ncalls < MaxCalls
    /\ ncalls' = ncalls + 1
    /\ LET built == tags_loop(args, <<>>)
       IN  /\ binder' = IF built.ok
                        THEN [NoBinder EXCEPT !.kind = "tags",
                                              !.tag_list = built.tag_list]
                        ELSE binder
           /\ last' = [NoCall EXCEPT !.op = "tags", !.items = args,
                                     !.result = IF built.ok THEN "ok"
                                                ELSE "InvalidArgument"]
    /\ UNCHANGED <<cls_dict, late>>

tags_decorate_process_model(cls) ==
    /\ ncalls < MaxCalls
    /\ binder.kind = "tags"
    /\ ncalls' = ncalls + 1
    /\ LET out == tags_outcome(cls_dict, cls, binder.tag_list)
       IN  /\ cls_dict' = out.dict
           /\ last' = [NoCall EXCEPT
                         !.op = "tags_decorate_process_model",
                         !.target = cls,
                         !.result = out.result,
                         !.repeat =
                            /\ last.op = "tags_decorate_process_model"
                            /\ last.target = cls
                            /\ last.result = "ok"]
           /\ late' = [late EXCEPT !.tag_list =
                         @ \/ /\ out.result = "ok"
                              /\ extends_under_subclass(
                                    cls_dict, cls, "tag_list",
                                    getattr(out.dict, cls, "tag_list"))]
    /\ UNCHANGED binder

----------------------------------------------------------------------------
\* The classes before any decorator has run: AbstractProcessModel holds
\* the defaults (None, None, []), and tag_list either as [] or not at all
\* (the decorator tests hasattr); the other classes hold nothing of their
\* own.
Init ==
    /\ \E base_has_tags \in BOOLEAN :
         cls_dict =
           [c \in Classes |->
              [a \in Attrs |->
                 IF c = "AbstractProcessModel"
                    /\ (a = "tag_list" => base_has_tags)
                 THEN HasAttrVal(NoAttr(a).val)
                 ELSE NoAttr(a)]]
    /\ binder = NoBinder
    /\ last = NoCall
    /\ late = [required_resources |-> FALSE, tag_list |-> FALSE]
    /\ ncalls = 0

Next ==
    \/ \E a \in ImplementsArgs : implements(a[1], a[2])
    \/ \E args \in ReqArgLists : requires(args)
    \/ \E args \in TagArgLists : tags(args)
    \/ \E cls \in Classes : implements_decorate_process_model(cls)
    \/ \E cls \in Classes : requires_decorate_process_model(cls)
    \/ \E cls \in Classes : tags_decorate_process_model(cls)

Spec == Init /\ [][Next]_vars

----------------------------------------------------------------------------
\* Vocabulary of the properties.

ProcessModelClasses ==
    {c \in Classes : issubclass(c, "AbstractProcessModel")}

ImplementsApply == "implements_decorate_process_model"
RequiresApply == "requires_decorate_process_model"
TagsApply == "tags_decorate_process_model"

ApplyOps == {ImplementsApply, RequiresApply, TagsApply}

IsPrefix(s, t) == Len(s) <= Len(t) /\ SubSeq(t, 1, Len(s)) = s

PrefixUnderInheritance(attr) ==
    \A c \in ProcessModelClasses :
        Base[c] \in ProcessModelClasses =>
            IsPrefix(getattr(cls_dict, Base[c], attr),
                     getattr(cls_dict, c, attr))

\* A requirement item as the specification admits it: a resource class,
\* or a non-empty list of resource classes.
WellFormedRequirement(x) ==
    \/ x.kind = "cls" /\ x.val \in ResourceClasses
    \/ /\ x.kind = "list"
       /\ x.elems # <<>>
       /\ \A j \in DOMAIN x.elems :
             x.elems[j].kind = "cls" /\ x.elems[j].val \in ResourceClasses

\* A tag item that is a string or a flat sequence of strings.
FlatTagItem(x) ==
    \/ x.kind = "str"
    \/ x.kind = "list" /\ \A j \in DOMAIN x.elems : x.elems[j].kind = "str"

\* A tag item that is a sequence containing a sequence.
NestedTagItem(x) ==
    x.kind = "list" /\ \E j \in DOMAIN x.elems : x.elems[j].kind = "list"

\* The items flattened in input order.
RECURSIVE Flatten(_)
Flatten(items) ==
    IF items = <<>> THEN <<>>
    ELSE (IF Head(items).kind = "list" THEN Head(items).elems
          ELSE <<Head(items)>>) \o Flatten(Tail(items))

----------------------------------------------------------------------------
\* C1: an application of implements(proc, protocol), both given, that
\* fails with a conflict leaves implements_process and
\* implements_protocol of the target's own record as they were.
ImplementsAllOrNothing ==
    [][(/\ last'.op = ImplementsApply
        /\ last'.result = "ConflictError"
        /\ binder.proc # None
        /\ binder.protocol # None)
       => /\ cls_dict'[last'.target]["implements_process"]
               = cls_dict[last'.target]["implements_process"]
          /\ cls_dict'[last'.target]["implements_protocol"]
               = cls_dict[last'.target]["implements_protocol"]]_vars

\* C2: applying implements to a ProcessModel class fails with a conflict
\* exactly when proc is given and differs from the non-null
\* implements_process the class shows (its own or an inherited one), or
\* the same for protocol; otherwise it succeeds.
ConflictDetection ==
    [][(last'.op = ImplementsApply /\ last'.target \in ProcessModelClasses)
       => LET T == last'.target
              A == getattr(cls_dict, T, "implements_process")
              P == getattr(cls_dict, T, "implements_protocol")
              clash ==
                 \/ A # None /\ binder.proc # None /\ binder.proc # A
                 \/ P # None /\ binder.protocol # None /\ binder.protocol # P
          IN  /\ clash => last'.result = "ConflictError"
              /\ ~clash => last'.result = "ok"]_vars

\* C2 witness: a conflict raised on N for a process that N only inherits.
ConflictDetectionWitness ==
    /\ last.op = ImplementsApply
    /\ last.result = "ConflictError"
    /\ last.target = "N"
    /\ ~cls_dict["N"]["implements_process"].has
    /\ binder.proc # None
    /\ binder.protocol = None
    /\ getattr(cls_dict, "N", "implements_process") \notin {None, binder.proc}

\* C3: once a class' own implements_process (implements_protocol) is
\* non-null, no step gives it a different non-null value.
WriteOnce ==
    [][\A c \in Classes :
         \A a \in {"implements_process", "implements_protocol"} :
            (cls_dict[c][a].has /\ cls_dict[c][a].val # None)
            => cls_dict'[c][a].val \in {None, cls_dict[c][a].val}]_vars

\* C3 witness: a class holding its own process refused a different one.
WriteOnceWitness ==
    /\ last.op = ImplementsApply
    /\ last.result = "ConflictError"
    /\ last.target \in ProcessModelClasses
    /\ cls_dict[last.target]["implements_process"].has
    /\ cls_dict[last.target]["implements_process"].val # None
    /\ binder.proc
          \notin {None, cls_dict[last.target]["implements_process"].val}

\* C4 as stated, for the parent M and its subclass N: in every reachable
\* state N shows a required_resources and a tag_list that extend the ones
\* M shows.
PrefixMonotone ==
    /\ IsPrefix(getattr(cls_dict, "M", "required_resources"),
                getattr(cls_dict, "N", "required_resources"))
    /\ IsPrefix(getattr(cls_dict, "M", "tag_list"),
                getattr(cls_dict, "N", "tag_list"))

\* C4 amended: every ProcessModel class shows lists that extend the ones
\* its parent shows, as long as no class had the list it shows changed
\* while one of its subclasses already held its own list.
PrefixMonotoneUnlessLate ==
    /\ ~late.required_resources
          => PrefixUnderInheritance("required_resources")
    /\ ~late.tag_list => PrefixUnderInheritance("tag_list")

\* C4 witness: M and N both hold their own requirements, bound parent
\* first, and N's go beyond M's.
PrefixMonotoneWitness ==
    /\ ~late.required_resources
    /\ cls_dict["M"]["required_resources"].has
    /\ cls_dict["N"]["required_resources"].has
    /\ Len(cls_dict["M"]["required_resources"].val) > 0
    /\ Len(cls_dict["N"]["required_resources"].val)
          > Len(cls_dict["M"]["required_resources"].val)

\* C5: applying requires (tags) to a ProcessModel class succeeds and
\* leaves on the class the list it showed before followed by the
\* binder's items, unchanged and in order.
Additivity ==
    [][/\ (last'.op = RequiresApply
             /\ last'.target \in ProcessModelClasses)
          => /\ last'.result = "ok"
             /\ cls_dict'[last'.target]["required_resources"]
                  = HasAttrVal(getattr(cls_dict, last'.target,
                                       "required_resources")
                               \o binder.reqs)
       /\ (last'.op = TagsApply /\ last'.target \in ProcessModelClasses)
          => /\ last'.result = "ok"
             /\ cls_dict'[last'.target]["tag_list"]
                  = HasAttrVal(getattr(cls_dict, last'.target, "tag_list")
                               \o binder.tag_list)]_vars

\* C5 witness: a second application on N, whose list holds inherited
\* entries, the first items and the second.
AdditivityWitness ==
    /\ last.op = RequiresApply
    /\ last.result = "ok"
    /\ last.repeat
    /\ last.target = "N"
    /\ Len(binder.reqs) = 2
    /\ cls_dict["M"]["required_resources"].has
    /\ Len(cls_dict["M"]["required_resources"].val) > 0
    /\ Len(cls_dict["N"]["required_resources"].val)
          = Len(cls_dict["M"]["required_resources"].val) + 4

\* C6: no call changes the own record of a class other than the one the
\* decorator is applied to.
NonMutationOfOthers ==
    [][\A c \in Classes :
         c # last'.target => cls_dict'[c] = cls_dict[c]]_vars

\* C6 witness: N bound its own requirements and tags under a parent M
\* that holds different ones.
NonMutationOfOthersWitness ==
    /\ last.op = TagsApply
    /\ last.result = "ok"
    /\ last.target = "N"
    /\ cls_dict["M"]["tag_list"].has
    /\ cls_dict["M"]["tag_list"].val # <<>>
    /\ cls_dict["N"]["tag_list"].val # cls_dict["M"]["tag_list"].val

\* C7: applying any of the three decorators to a class that is not a
\* ProcessModel fails with InvalidTarget and writes nothing.
TargetGate ==
    [][(last'.op \in ApplyOps /\ last'.target \notin ProcessModelClasses)
       => /\ last'.result = "InvalidTarget"
          /\ cls_dict' = cls_dict]_vars

\* C7 witness: each decorator family was refused on Other; this one is
\* the tags decorator.
TargetGateWitness ==
    /\ last.op = TagsApply
    /\ last.target = "Other"
    /\ last.result = "InvalidTarget"
    /\ \A a \in Attrs : ~cls_dict["Other"][a].has

\* C8: requires(*args) succeeds exactly when every item is a resource
\* class or a non-empty list of resource classes, fails with
\* InvalidArgument otherwise, and touches no class.
RequiresValidation ==
    [][last'.op = "requires"
       => LET wf == \A i \in DOMAIN last'.items :
                       WellFormedRequirement(last'.items[i])
          IN  /\ wf <=> last'.result = "ok"
              /\ ~wf => last'.result = "InvalidArgument"
              /\ cls_dict' = cls_dict]_vars

\* C9: tags(*args) on strings and flat sequences of strings (the empty
\* one included) succeeds with the items flattened in input order; on an
\* item that is a sequence containing a sequence it fails with
\* InvalidArgument, and touches no class.
TagsConstruction ==
    [][last'.op = "tags"
       => /\ (\A i \in DOMAIN last'.items : FlatTagItem(last'.items[i]))
             => /\ last'.result = "ok"
                /\ binder'.kind = "tags"
                /\ binder'.tag_list = Flatten(last'.items)
          /\ (\E i \in DOMAIN last'.items : NestedTagItem(last'.items[i]))
             => /\ last'.result = "InvalidArgument"
                /\ cls_dict' = cls_dict]_vars

\* C10: applying the same implements binder to the same class again,
\* right after it succeeded, succeeds and leaves the class' own record
\* and the four values it shows unchanged.
Idempotence ==
    [][(/\ last.op = ImplementsApply
        /\ last.result = "ok"
        /\ last'.op = ImplementsApply
        /\ last'.target = last.target)
       => /\ last'.result = "ok"
          /\ cls_dict'[last.target] = cls_dict[last.target]
          /\ \A a \in Attrs :
                Lookup(cls_dict', last.target, a)
                   = Lookup(cls_dict, last.target, a)]_vars

\* C10 witness: a binder with both arguments applied twice in a row.
IdempotenceWitness ==
    /\ last.op = ImplementsApply
    /\ last.result = "ok"
    /\ last.repeat
    /\ binder.proc # None
    /\ binder.protocol # None
    /\ cls_dict[last.target]["implements_process"].val = binder.proc
    /\ cls_dict[last.target]["implements_protocol"].val = binder.protocol

====
